---- MODULE Spec2Model ----
(***************************************************************************)
(* GANime/gan.py: weight_init, GAN.__init__, GAN.train, GAN.generate and   *)
(* plotter, as a state machine.  Program locations are named after the     *)
(* source line they stand at ("L91" is gan.py line 91).                    *)
(*                                                                         *)
(* Tensors are symbolic: a tensor records the operation that produced it,  *)
(* its operands, the parameter version of the network that computed it and *)
(* the set of networks whose parameters its autograd graph reaches.        *)
(* Network parameters are a version number (the count of optimizer steps   *)
(* applied to them); a gradient buffer is the sequence of losses whose     *)
(* backward pass was accumulated into it since it was last zeroed.         *)
(***************************************************************************)
EXTENDS Integers, Sequences, FiniteSets

VARIABLES
  pc,               \* program location
  seed_size,        \* self.seed_size
  print_loss_every, \* self.print_loss_every
  layers,           \* net -> sequence of layers, in model.modules() order
  wi,               \* weight_init frame: the model and the loop position
  visits,           \* net -> per layer, how often weight_init's loop body ran on it
  init_calls,       \* net -> number of weight_init calls on it
  params,           \* net -> parameter version
  grad,             \* net -> accumulated backward passes
  device,           \* net -> device the network is on
  opt,              \* optimizer name -> optimizer (or NoOptimizer)
  args,             \* arguments of the running train / generate call
  epoch, i,         \* loop variables of train
  loc,              \* local tensors of the running call
  rng,              \* number of torch.randn calls so far
  trace,            \* operations of the current training step, in order
  out,              \* lines printed
  plots,            \* calls of plotter
  gen_calls,        \* forward passes of the generator
  consumed,         \* batches taken from dl
  result,           \* return value of generate
  err               \* exception that ended the call

vars == <<pc, seed_size, print_loss_every, layers, wi, visits, init_calls,
          params, grad, device, opt, args, epoch, i, loc, rng, trace, out,
          plots, gen_calls, consumed, result, err>>

\* ------------------------------------------------------------------ bounds

MaxSeed == 2
MaxLayers == 2
MaxEpochs == 2
MaxBatches == 2
MaxBatchSize == 2
MaxEvery == 2
MaxRows == 3
MaxCols == 3

\* --------------------------------------------------------------- constants

FixedSeedCount == 64
PlotterDefaultRows == 8
PlotterDefaultColumns == 8

Nets == {"gen", "dis"}
Unset == [kind |-> "unset"]
NoOptimizer == [kind |-> "none"]
NoFrame == [model |-> "none", k |-> 0]

\* ------------------------------------------------------- layer type names

\* A type name is the sequence of its characters, so that `in` is a real
\* substring test.
Conv == <<"C", "o", "n", "v">>
BatchNorm == <<"B", "a", "t", "c", "h", "N", "o", "r", "m">>
Conv2d == Conv \o <<"2", "d">>
ConvTranspose2d == Conv \o <<"T", "r", "a", "n", "s", "p", "o", "s", "e", "2", "d">>
BatchNorm2d == BatchNorm \o <<"2", "d">>
ReLU == <<"R", "e", "L", "U">>
ConvBatchNorm2d == Conv \o BatchNorm \o <<"2", "d">>

\* The layer types a network is built of: transposed convolutions in the
\* generator, convolutions in the discriminator, and in both batch norms,
\* activations and a fused convolution + batch-norm layer.
LayerTypes(net) ==
  {IF net = "gen" THEN ConvTranspose2d ELSE Conv2d, BatchNorm2d, ReLU,
   ConvBatchNorm2d}

\* `sub in name` of Python strings
Contains(sub, name) ==
  \E s \in 1..(Len(name) - Len(sub) + 1) :
     SubSeq(name, s, s + Len(sub) - 1) = sub

\* A freshly constructed layer: torch's default initialisation of the
\* parameters it has.
NewLayer(name) ==
  [name |-> name,
   weight |-> IF name = ReLU THEN "absent" ELSE "default",
   bias |-> IF name = ReLU THEN "absent" ELSE "default"]

Networks(net) ==
  UNION {[1..n -> {NewLayer(t) : t \in LayerTypes(net)}] : n \in 1..MaxLayers}

\* --------------------------------------------------------------- weight_init

\* The loop body with a second `if` where the code has `elif`
InitLayerNoElif(layer) ==
  LET a == IF Contains(Conv, layer.name)
           THEN [layer EXCEPT !.weight = "normal(0,0.02)"]
           ELSE layer
  IN IF Contains(BatchNorm, layer.name)
     THEN [a EXCEPT !.weight = "normal(1,0.02)", !.bias = "constant(0)"]
     ELSE a

\* The body of weight_init's loop for one layer (lines 25-37)
InitLayer(layer) ==
  IF Contains(Conv, layer.name)
  THEN [layer EXCEPT !.weight = "normal(0,0.02)"]
  ELSE IF Contains(BatchNorm, layer.name)
  THEN [layer EXCEPT !.weight = "normal(1,0.02)", !.bias = "constant(0)"]
  ELSE layer

\* What weight_init leaves of a whole model
Initialised(ls) == [k \in DOMAIN ls |-> InitLayer(ls[k])]

ZeroVisits(ls) == [k \in DOMAIN ls |-> 0]

\* Locals of train and generate, before any is bound
NoLocals ==
  [data |-> Unset, b |-> 0, fixed_seed |-> Unset, noise |-> Unset,
   fake_img |-> Unset, real_img |-> Unset, fake_dis_pred |-> Unset,
   real_dis_pred |-> Unset, fake_dis_lbl |-> Unset, real_dis_lbl |-> Unset,
   fake_dis_loss |-> Unset, real_dis_loss |-> Unset, dis_loss |-> Unset,
   fake_gen_pred |-> Unset, gen_loss |-> Unset, pred |-> Unset,
   generated |-> Unset, it |-> 0]

NoArgs == [call |-> "none"]

\* Everything a call of train or generate works on, before the call
CallIdle ==
  /\ epoch = -1 /\ i = -1
  /\ loc = NoLocals
  /\ rng = 0
  /\ trace = <<>>
  /\ out = <<>>
  /\ plots = <<>>
  /\ gen_calls = <<>>
  /\ consumed = 0
  /\ result = Unset
  /\ err = "none"

trainVars == <<epoch, i, loc, rng, trace, out, plots, gen_calls, consumed,
               result, err>>
netVars == <<params, grad, device>>
hyperVars == <<seed_size, print_loss_every>>
initVars == <<layers, wi, visits, init_calls>>

\* ------------------------------------------------------------- GAN.__init__

\* The state before GAN(...) runs; the constructor's arguments are chosen
\* when it stores them.
InitConstruct ==
  /\ pc = "L49"
  /\ seed_size = 0
  /\ print_loss_every = 0
  /\ layers = [n \in Nets |-> <<>>]
  /\ wi = NoFrame
  /\ visits = [n \in Nets |-> <<>>]
  /\ init_calls = [n \in Nets |-> 0]
  /\ params = [n \in Nets |-> 0]
  /\ grad = [n \in Nets |-> <<>>]
  /\ device = [n \in Nets |-> "cpu"]
  /\ opt = [o \in {"gen_optimizer", "dis_optimizer"} |-> NoOptimizer]
  /\ args = NoArgs
  /\ CallIdle

\* line 49
StoreSeedSize ==
  /\ pc = "L49"
  /\ \E s \in 1..MaxSeed : seed_size' = s
  /\ pc' = "L50"
  /\ UNCHANGED <<print_loss_every, initVars, netVars, opt, args, trainVars>>

\* lines 50 and 52: generator(seed_size), discriminator(seed_size); the
\* architecture is the component's choice.
BuildNet(net, at, next) ==
  /\ pc = at
  /\ \E ls \in Networks(net) :
       /\ layers' = [layers EXCEPT ![net] = ls]
       /\ visits' = [visits EXCEPT ![net] = ZeroVisits(ls)]
  /\ pc' = next
  /\ UNCHANGED <<hyperVars, wi, init_calls, netVars, opt, args, trainVars>>

BuildGen == BuildNet("gen", "L50", "L51")
BuildDis == BuildNet("dis", "L52", "L53")

\* lines 51 and 53: the call of weight_init; line 24 starts the loop
CallWeightInit(net, at) ==
  /\ pc = at
  /\ wi' = [model |-> net, k |-> 1]
  /\ init_calls' = [init_calls EXCEPT ![net] = @ + 1]
  /\ pc' = "L24"
  /\ UNCHANGED <<hyperVars, layers, visits, netVars, opt, args, trainVars>>

InitGen == CallWeightInit("gen", "L51")
InitDis == CallWeightInit("dis", "L53")

\* lines 24-37: one pass of the loop over model.modules()
WeightInitLayer ==
  /\ pc = "L24"
  /\ wi.k <= Len(layers[wi.model])
  /\ layers' = [layers EXCEPT ![wi.model][wi.k] = InitLayer(@)]
  /\ visits' = [visits EXCEPT ![wi.model][wi.k] = @ + 1]
  /\ wi' = [wi EXCEPT !.k = @ + 1]
  /\ UNCHANGED <<pc, hyperVars, init_calls, netVars, opt, args, trainVars>>

\* line 24, modules() exhausted: weight_init returns to its caller
WeightInitReturn ==
  /\ pc = "L24"
  /\ wi.k > Len(layers[wi.model])
  /\ pc' = IF wi.model = "gen" THEN "L52" ELSE "L55"
  /\ wi' = NoFrame
  /\ UNCHANGED <<hyperVars, layers, visits, init_calls, netVars, opt, args,
                 trainVars>>

\* lines 55-59
StoreHyper ==
  /\ pc = "L55"
  /\ \E n \in 1..MaxEvery : print_loss_every' = n
  /\ pc' = "constructed"
  /\ UNCHANGED <<seed_size, initVars, netVars, opt, args, trainVars>>

\* ------------------------------------------------------------------ tensors

\* torch.randn(n, dim, 1, 1, device=dev): the id-th draw of the run
Randn(n, dim, dev, id) ==
  [kind |-> "randn", n |-> n, dim |-> dim, dev |-> dev, id |-> id,
   reaches |-> {}]

\* torch.full((n,), value, device=dev)
Full(n, value, dev) ==
  [kind |-> "full", n |-> n, value |-> value, dev |-> dev, reaches |-> {}]

\* x.detach(): the same data, cut from the graph that produced it
Detach(x) == [x EXCEPT !.reaches = {}]

\* x.to(dev), x.cpu()
To(x, dev) == [x EXCEPT !.dev = dev]

\* self.gen(x) and self.dis(x) with the parameters as they are now; under
\* torch.no_grad() no graph is recorded.
GenForward(x, p, grad_enabled) ==
  [kind |-> "gen_out", input |-> x, ver |-> p["gen"], n |-> x.n,
   dev |-> x.dev,
   reaches |-> IF grad_enabled THEN x.reaches \cup {"gen"} ELSE {}]

DisForward(x, p) ==
  [kind |-> "dis_out", input |-> x, ver |-> p["dis"], n |-> x.n,
   dev |-> x.dev, reaches |-> x.reaches \cup {"dis"}]

\* nn.BCELoss()(pred.view(-1), target)
BCELoss(pred, target, name, e, idx) ==
  [kind |-> "bce", pred |-> pred, target |-> target,
   id |-> [loss |-> name, epoch |-> e, i |-> idx],
   reaches |-> pred.reaches]

\* a + b of two losses
Add(a, b, name, e, idx) ==
  [kind |-> "add", left |-> a.id, right |-> b.id,
   id |-> [loss |-> name, epoch |-> e, i |-> idx],
   reaches |-> a.reaches \cup b.reaches]

\* loss.backward(): accumulates into the .grad of every parameter the
\* graph of the loss reaches
Backward(loss, g) ==
  [n \in Nets |-> IF n \in loss.reaches THEN Append(g[n], loss.id) ELSE g[n]]

\* net.zero_grad()
ZeroGradNoOp(net, g) == g

ZeroGrad(net, g) == [g EXCEPT ![net] = <<>>]

\* torch.optim.AdamW(net.parameters(), ...)
AdamWOther(net) ==
  [kind |-> "AdamW", net |-> IF net = "gen" THEN "dis" ELSE "gen", steps |-> 0]

AdamW(net) == [kind |-> "AdamW", net |-> net, steps |-> 0]

\* optimizer.step(): updates the parameters the optimizer was given
Step(o, p) == [p EXCEPT ![o.net] = @ + 1]

\* type(dl) == torch.utils.data.dataloader.DataLoader
AnyIterable(t) == TRUE

IsDataLoader(t) == t = "DataLoader"

\* i % self.print_loss_every == 0
LogDueOffByOne(idx, every) == (idx + 1) % every = 0

LogDue(idx, every) == idx % every = 0

\* enumerate(dl) has another batch after `it` were yielded
HasNextSkipLast(it, dl) == it + 1 < Len(dl)

HasNext(it, dl) == it < Len(dl)

\* ------------------------------------------------------------------ plotter

\* plt.subplots(rows, columns) squeezes its result: one Axes for a 1x1
\* grid, a 1-D array for a single row or column, a 2-D array otherwise.
AxesRank(rows, columns) ==
  IF rows = 1 /\ columns = 1 THEN 0
  ELSE IF rows = 1 \/ columns = 1 THEN 1
  ELSE 2

\* plotter(data, rows, columns), lines 12-20: "ok" or the exception raised.
\* ax[i,j] needs a 2-D array of axes; data[j+(i*columns)] needs that many
\* images.
Plotter(n, rows, columns) ==
  IF AxesRank(rows, columns) = 0 THEN "TypeError"
  ELSE IF AxesRank(rows, columns) = 1 THEN "IndexError"
  ELSE IF \E r \in 0..(rows - 1), c \in 0..(columns - 1) : c + r * columns >= n
  THEN "IndexError"
  ELSE "ok"

PlotCall(data, rows, columns) ==
  [data |-> data, rows |-> rows, columns |-> columns,
   outcome |-> Plotter(data.n, rows, columns)]

\* ---------------------------------------------------------------- GAN.train

constVars == <<seed_size, print_loss_every, layers, wi, visits, init_calls,
               args, result>>

\* A statement that binds one local and touches nothing else
Assign(at, next, name, value, op) ==
  /\ pc = at
  /\ pc' = next
  /\ loc' = [loc EXCEPT ![name] = value]
  /\ trace' = IF op = "" THEN trace ELSE Append(trace, op)
  /\ UNCHANGED <<constVars, netVars, opt, epoch, i, rng, out, plots,
                 gen_calls, consumed, err>>

\* line 68
CheckDataLoader ==
  /\ pc = "L68"
  /\ IF IsDataLoader(args.dl_type)
     THEN pc' = "L71" /\ err' = err
     ELSE pc' = "raised" /\ err' = "AssertionError"
  /\ UNCHANGED <<constVars, netVars, opt, epoch, i, loc, rng, trace, out,
                 plots, gen_calls, consumed>>

\* line 71
CreateGenOptimizer ==
  /\ pc = "L71"
  /\ opt' = [opt EXCEPT !["gen_optimizer"] = AdamW("gen")]
  /\ pc' = "L72"
  /\ UNCHANGED <<constVars, netVars, trainVars>>

\* line 72
CreateDisOptimizer ==
  /\ pc = "L72"
  /\ opt' = [opt EXCEPT !["dis_optimizer"] = AdamW("dis")]
  /\ pc' = "L73"
  /\ UNCHANGED <<constVars, netVars, trainVars>>

\* lines 73 and 74
MoveNet(net, at, next) ==
  /\ pc = at
  /\ device' = [device EXCEPT ![net] = args.device]
  /\ pc' = next
  /\ UNCHANGED <<constVars, params, grad, opt, trainVars>>

MoveDis == MoveNet("dis", "L73", "L74")
MoveGen == MoveNet("gen", "L74", "L76")

\* line 76
IfPlot ==
  /\ pc = "L76"
  /\ pc' = IF args.plot THEN "L77" ELSE "L79"
  /\ UNCHANGED <<constVars, netVars, opt, trainVars>>

\* line 77
SampleFixedSeed ==
  /\ pc = "L77"
  /\ loc' = [loc EXCEPT
               !.fixed_seed = Randn(FixedSeedCount, seed_size, args.device, rng)]
  /\ rng' = rng + 1
  /\ pc' = "L79"
  /\ UNCHANGED <<constVars, netVars, opt, epoch, i, trace, out, plots,
                 gen_calls, consumed, err>>

\* line 79: the next epoch, or the end of train
ForEpoch ==
  /\ pc = "L79"
  /\ IF epoch + 1 < args.num_epochs
     THEN /\ epoch' = epoch + 1
          /\ loc' = [loc EXCEPT !.it = 0]
          /\ pc' = "L80"
     ELSE /\ pc' = "done"
          /\ UNCHANGED <<epoch, loc>>
  /\ UNCHANGED <<constVars, netVars, opt, i, rng, trace, out, plots,
                 gen_calls, consumed, err>>

\* line 80: the next batch of this pass over dl, or the end of the epoch
ForBatch ==
  /\ pc = "L80"
  /\ IF HasNext(loc.it, args.dl)
     THEN /\ i' = loc.it
          /\ loc' = [loc EXCEPT
                       !.it = @ + 1,
                       !.data = [kind |-> "data", n |-> args.dl[loc.it + 1],
                                 epoch |-> epoch, idx |-> loc.it,
                                 dev |-> "cpu", reaches |-> {}]]
          /\ consumed' = consumed + 1
          /\ trace' = <<>>
          /\ pc' = "L81"
     ELSE /\ pc' = "L146"
          /\ UNCHANGED <<i, loc, consumed, trace>>
  /\ UNCHANGED <<constVars, netVars, opt, epoch, rng, out, plots, gen_calls,
                 err>>

\* line 81
BatchSize == Assign("L81", "L91", "b", loc.data.n, "")

\* lines 91 and 123
ZeroGradAt(net, at, next, op) ==
  /\ pc = at
  /\ grad' = ZeroGrad(net, grad)
  /\ trace' = Append(trace, op)
  /\ pc' = next
  /\ UNCHANGED <<constVars, params, device, opt, epoch, i, loc, rng, out,
                 plots, gen_calls, consumed, err>>

DisZeroGrad == ZeroGradAt("dis", "L91", "L94", "dis.zero_grad")

\* line 94
SampleNoise ==
  /\ pc = "L94"
  /\ loc' = [loc EXCEPT !.noise = Randn(loc.b, seed_size, args.device, rng)]
  /\ rng' = rng + 1
  /\ trace' = Append(trace, "randn")
  /\ pc' = "L95"
  /\ UNCHANGED <<constVars, netVars, opt, epoch, i, out, plots, gen_calls,
                 consumed, err>>

\* line 95
GenerateFake ==
  /\ pc = "L95"
  /\ loc' = [loc EXCEPT !.fake_img = GenForward(loc.noise, params, TRUE)]
  /\ gen_calls' = Append(gen_calls, [at |-> "L95", input |-> loc.noise,
                                     epoch |-> epoch, i |-> i])
  /\ trace' = Append(trace, "gen")
  /\ pc' = "L98"
  /\ UNCHANGED <<constVars, netVars, opt, epoch, i, rng, out, plots,
                 consumed, err>>

\* line 98
RealImg == Assign("L98", "L101", "real_img", To(loc.data, args.device), "")

\* line 101
FakeDisPred ==
  Assign("L101", "L102", "fake_dis_pred",
         DisForward(Detach(loc.fake_img), params), "dis(fake.detach)")

\* line 102
RealDisPred ==
  Assign("L102", "L105", "real_dis_pred", DisForward(loc.real_img, params),
         "dis(real)")

\* line 105
FakeDisLbl ==
  Assign("L105", "L106", "fake_dis_lbl", Full(loc.b, "0.1", args.device),
         "fake_lbl")

\* line 106
RealDisLbl ==
  Assign("L106", "L109", "real_dis_lbl", Full(loc.b, "0.9", args.device),
         "real_lbl")

\* line 109
FakeDisLoss ==
  Assign("L109", "L110", "fake_dis_loss",
         BCELoss(loc.fake_dis_pred, loc.fake_dis_lbl, "fake_dis_loss", epoch, i),
         "loss(fake)")

\* line 110
RealDisLoss ==
  Assign("L110", "L112", "real_dis_loss",
         BCELoss(loc.real_dis_pred, loc.real_dis_lbl, "real_dis_loss", epoch, i),
         "loss(real)")

\* lines 112, 113 and 132
BackwardAt(at, next, name, op) ==
  /\ pc = at
  /\ grad' = Backward(loc[name], grad)
  /\ trace' = Append(trace, op)
  /\ pc' = next
  /\ UNCHANGED <<constVars, params, device, opt, epoch, i, loc, rng, out,
                 plots, gen_calls, consumed, err>>

RealDisBackward == BackwardAt("L112", "L113", "real_dis_loss", "backward(real)")
FakeDisBackward == BackwardAt("L113", "L114", "fake_dis_loss", "backward(fake)")

\* line 114
DisLoss ==
  Assign("L114", "L115", "dis_loss",
         Add(loc.fake_dis_loss, loc.real_dis_loss, "dis_loss", epoch, i), "")

\* lines 115 and 133
StepAt(o, at, next, op) ==
  /\ pc = at
  /\ params' = Step(opt[o], params)
  /\ opt' = [opt EXCEPT ![o].steps = @ + 1]
  /\ trace' = Append(trace, op)
  /\ pc' = next
  /\ UNCHANGED <<constVars, grad, device, epoch, i, loc, rng, out, plots,
                 gen_calls, consumed, err>>

\* line 115 left out
SkipDisOptimizerStep ==
  /\ pc = "L115"
  /\ pc' = "L123"
  /\ UNCHANGED <<constVars, netVars, opt, trainVars>>

DisOptimizerStep == StepAt("dis_optimizer", "L115", "L123", "dis_optimizer.step")

\* line 123
GenZeroGrad == ZeroGradAt("gen", "L123", "L128", "gen.zero_grad")

\* line 128 with the fake batch generated again instead of reused
FakeGenPredRegenerated ==
  /\ pc = "L128"
  /\ loc' = [loc EXCEPT
               !.fake_gen_pred =
                  DisForward(GenForward(loc.noise, params, TRUE), params)]
  /\ gen_calls' = Append(gen_calls, [at |-> "L128", input |-> loc.noise,
                                     epoch |-> epoch, i |-> i])
  /\ trace' = Append(Append(trace, "gen"), "dis(fake)")
  /\ pc' = "L131"
  /\ UNCHANGED <<constVars, netVars, opt, epoch, i, rng, out, plots,
                 consumed, err>>

\* line 128
FakeGenPred ==
  Assign("L128", "L131", "fake_gen_pred", DisForward(loc.fake_img, params),
         "dis(fake)")

\* line 131
GenLoss ==
  Assign("L131", "L132", "gen_loss",
         BCELoss(loc.fake_gen_pred, loc.real_dis_lbl, "gen_loss", epoch, i),
         "loss(gen)")

\* line 132
GenBackward == BackwardAt("L132", "L133", "gen_loss", "backward(gen)")

\* line 133
GenOptimizerStep == StepAt("gen_optimizer", "L133", "L142", "gen_optimizer.step")

\* lines 139-143
LogLosses ==
  /\ pc = "L142"
  /\ out' = IF LogDue(i, print_loss_every)
            THEN Append(out, [i |-> i, epoch |-> epoch,
                              num_epochs |-> args.num_epochs,
                              d |-> loc.dis_loss.id, g |-> loc.gen_loss.id])
            ELSE out
  /\ pc' = "L80"
  /\ UNCHANGED <<constVars, netVars, opt, epoch, i, loc, rng, trace, plots,
                 gen_calls, consumed, err>>

\* line 146
IfPlotEpoch ==
  /\ pc = "L146"
  /\ pc' = IF args.plot THEN "L148" ELSE "L79"
  /\ UNCHANGED <<constVars, netVars, opt, trainVars>>

\* lines 147-148 with the latent batch drawn anew every epoch
GenerateFixedResampled ==
  /\ pc = "L148"
  /\ LET z == Randn(FixedSeedCount, seed_size, args.device, rng)
     IN /\ loc' = [loc EXCEPT !.fixed_seed = z,
                              !.pred = GenForward(z, params, FALSE)]
        /\ gen_calls' = Append(gen_calls, [at |-> "L148", input |-> z,
                                           epoch |-> epoch, i |-> i])
  /\ rng' = rng + 1
  /\ pc' = "L149"
  /\ UNCHANGED <<constVars, netVars, opt, epoch, i, trace, out, plots,
                 consumed, err>>

\* lines 147-148
GenerateFixed ==
  /\ pc = "L148"
  /\ loc' = [loc EXCEPT !.pred = GenForward(loc.fixed_seed, params, FALSE)]
  /\ gen_calls' = Append(gen_calls, [at |-> "L148", input |-> loc.fixed_seed,
                                     epoch |-> epoch, i |-> i])
  /\ pc' = "L149"
  /\ UNCHANGED <<constVars, netVars, opt, epoch, i, rng, trace, out, plots,
                 consumed, err>>

\* line 149: plotter(pred.cpu()) with plotter's default rows and columns
PlotFixed ==
  /\ pc = "L149"
  /\ LET call == PlotCall(To(loc.pred, "cpu"), PlotterDefaultRows,
                          PlotterDefaultColumns)
     IN /\ plots' = Append(plots, call)
        /\ IF call.outcome = "ok"
           THEN pc' = "L79" /\ err' = err
           ELSE pc' = "raised" /\ err' = call.outcome
  /\ UNCHANGED <<constVars, netVars, opt, epoch, i, loc, rng, trace, out,
                 gen_calls, consumed>>

\* A constructed GAN (both networks built and initialised, no optimizer
\* yet) on which train(dl, num_epochs, batch_size, device, plot) is called.
DefaultGen == <<NewLayer(ConvTranspose2d), NewLayer(BatchNorm2d), NewLayer(ReLU)>>
DefaultDis == <<NewLayer(Conv2d), NewLayer(BatchNorm2d)>>

Constructed ==
  /\ seed_size \in 1..MaxSeed
  /\ print_loss_every \in 1..MaxEvery
  /\ layers = [n \in Nets |->
                 Initialised(IF n = "gen" THEN DefaultGen ELSE DefaultDis)]
  /\ wi = NoFrame
  /\ visits = [n \in Nets |-> [k \in DOMAIN layers[n] |-> 1]]
  /\ init_calls = [n \in Nets |-> 1]
  /\ params = [n \in Nets |-> 0]
  /\ grad = [n \in Nets |-> <<>>]
  /\ device = [n \in Nets |-> "cpu"]
  /\ opt = [o \in {"gen_optimizer", "dis_optimizer"} |-> NoOptimizer]

BatchSources ==
  UNION {[1..k -> 1..MaxBatchSize] : k \in 0..MaxBatches}

TrainArgs ==
  [call : {"train"}, dl_type : {"DataLoader", "list"}, dl : BatchSources,
   num_epochs : 0..MaxEpochs, device : {"cuda"}, plot : BOOLEAN]

Init ==
  /\ Constructed
  /\ args \in TrainArgs
  /\ pc = "L68"
  /\ CallIdle

Next ==
  \/ CheckDataLoader
  \/ CreateGenOptimizer
  \/ CreateDisOptimizer
  \/ MoveDis
  \/ MoveGen
  \/ IfPlot
  \/ SampleFixedSeed
  \/ ForEpoch
  \/ ForBatch
  \/ BatchSize
  \/ DisZeroGrad
  \/ SampleNoise
  \/ GenerateFake
  \/ RealImg
  \/ FakeDisPred
  \/ RealDisPred
  \/ FakeDisLbl
  \/ RealDisLbl
  \/ FakeDisLoss
  \/ RealDisLoss
  \/ RealDisBackward
  \/ FakeDisBackward
  \/ DisLoss
  \/ DisOptimizerStep
  \/ GenZeroGrad
  \/ FakeGenPred
  \/ GenLoss
  \/ GenBackward
  \/ GenOptimizerStep
  \/ LogLosses
  \/ IfPlotEpoch
  \/ GenerateFixed
  \/ PlotFixed

Spec == Init /\ [][Next]_vars

\* -------------------------------------------------- construction, then train

\* train(dl, num_epochs=0, plot=False) called on the constructed object:
\* the first call that attaches optimizers to the networks.
CallTrain ==
  /\ pc = "constructed"
  /\ \E a \in TrainArgs :
       /\ a.dl = <<>> /\ a.num_epochs = 0 /\ ~a.plot
       /\ args' = a
  /\ pc' = "L68"
  /\ UNCHANGED <<hyperVars, initVars, netVars, opt, trainVars>>

NextConstruct ==
  \/ StoreSeedSize
  \/ BuildGen
  \/ InitGen
  \/ WeightInitLayer
  \/ WeightInitReturn
  \/ BuildDis
  \/ InitDis
  \/ StoreHyper
  \/ CallTrain
  \/ CheckDataLoader
  \/ CreateGenOptimizer
  \/ CreateDisOptimizer

SpecConstruct == InitConstruct /\ [][NextConstruct]_vars

\* ------------------------------------------------------------- GAN.generate

genFrame == <<seed_size, print_loss_every, layers, wi, visits, init_calls,
              args, netVars, opt, epoch, i, trace, out, consumed>>

\* line 158
GenerateNoise ==
  /\ pc = "L158"
  /\ loc' = [loc EXCEPT
               !.noise = Randn(args.num_rows * args.num_cols, seed_size,
                               args.device, rng)]
  /\ rng' = rng + 1
  /\ pc' = "L159"
  /\ UNCHANGED <<genFrame, plots, gen_calls, result, err>>

\* line 159: self.gen(noise).cpu().detach()
GenerateImages ==
  /\ pc = "L159"
  /\ loc' = [loc EXCEPT
               !.generated = Detach(To(GenForward(loc.noise, params, TRUE), "cpu"))]
  /\ gen_calls' = Append(gen_calls, [at |-> "L159", input |-> loc.noise,
                                     epoch |-> epoch, i |-> i])
  /\ pc' = "L161"
  /\ UNCHANGED <<genFrame, rng, plots, result, err>>

\* line 161
GenerateIfPlot ==
  /\ pc = "L161"
  /\ pc' = IF args.plot THEN "L162" ELSE "L167"
  /\ UNCHANGED <<genFrame, loc, rng, plots, gen_calls, result, err>>

\* lines 162-165
GeneratePlot ==
  /\ pc = "L162"
  /\ LET call == PlotCall(loc.generated, args.num_rows, args.num_cols)
     IN /\ plots' = Append(plots, call)
        /\ IF call.outcome = "ok"
           THEN pc' = "L167" /\ err' = err
           ELSE pc' = "raised" /\ err' = call.outcome
  /\ UNCHANGED <<genFrame, loc, rng, gen_calls, result>>

\* lines 167-170
ReturnValue(generated, noise, return_noise) ==
  IF return_noise
  THEN [kind |-> "pair", generated |-> generated, noise |-> To(noise, "cpu")]
  ELSE generated

GenerateReturn ==
  /\ pc = "L167"
  /\ result' = ReturnValue(loc.generated, loc.noise, args.return_noise)
  /\ pc' = "returned"
  /\ UNCHANGED <<genFrame, loc, rng, plots, gen_calls, err>>

GenerateArgs ==
  [call : {"generate"}, num_rows : 1..MaxRows, num_cols : 1..MaxCols,
   device : {"cuda"}, plot : BOOLEAN, return_noise : BOOLEAN]

\* generate(num_rows, num_cols, device, plot, return_noise) called on a
\* constructed GAN
InitGenerate ==
  /\ Constructed
  /\ args \in GenerateArgs
  /\ pc = "L158"
  /\ CallIdle

NextGenerate ==
  \/ GenerateNoise
  \/ GenerateImages
  \/ GenerateIfPlot
  \/ GeneratePlot
  \/ GenerateReturn

SpecGenerate == InitGenerate /\ [][NextGenerate]_vars

\* ------------------------------------------------------------------- claims

NumEpochs == args.num_epochs
NumBatches == Len(args.dl)

\* The operations of one training step, in the order of lines 91-133
StepOrder ==
  <<"dis.zero_grad", "randn", "gen", "dis(fake.detach)", "dis(real)",
    "fake_lbl", "real_lbl", "loss(fake)", "loss(real)", "backward(real)",
    "backward(fake)", "dis_optimizer.step", "gen.zero_grad", "dis(fake)",
    "loss(gen)", "backward(gen)", "gen_optimizer.step">>

\* Locations at which the step of the batch last yielded is complete
AfterStep == {"L142", "L80", "L146", "L148", "L149", "L79", "done"}

\* Locations of the generator phase after the fake batch was re-classified
AfterFakeGenPred == {"L131", "L132", "L133", "L142"}

\* C1: in every training step the operations run in the order clear
\* discriminator gradients, sample latents, generate, classify detached
\* fake and real, build labels, two discriminator losses, two backward
\* passes, discriminator optimizer step, clear generator gradients,
\* re-classify the fake batch, generator loss, backward, generator optimizer
\* step, none skipped or repeated; the generator phase classifies with the
\* discriminator as updated in the same step.
C1_StepOrder ==
  /\ Len(trace) <= Len(StepOrder)
  /\ trace = SubSeq(StepOrder, 1, Len(trace))
  /\ (pc \in AfterStep /\ consumed > 0) => trace = StepOrder
  /\ pc \in AfterFakeGenPred =>
       /\ loc.fake_gen_pred.ver = loc.fake_dis_pred.ver + 1
       /\ loc.fake_gen_pred.ver = opt["dis_optimizer"].steps
       /\ loc.fake_gen_pred.ver = params["dis"]
       /\ pc # "L142" => opt["gen_optimizer"].steps = opt["dis_optimizer"].steps - 1

C1_Witness ==
  pc = "L142" /\ consumed = 2 /\ trace = StepOrder

DisPhase ==
  {"L91", "L94", "L95", "L98", "L101", "L102", "L105", "L106", "L109",
   "L110", "L112", "L113", "L114", "L115"}
GenPhase == {"L123", "L128", "L131", "L132", "L133"}

\* C2: the discriminator phase of a step leaves the generator's parameters
\* unchanged, the generator phase leaves the discriminator's unchanged, and
\* each optimizer step changes the parameters of its own network only; the
\* two optimizers hold different parameter sets.
C2_DisjointUpdates ==
  /\ [](opt["gen_optimizer"].kind = "AdamW" /\ opt["dis_optimizer"].kind = "AdamW"
         => opt["gen_optimizer"].net # opt["dis_optimizer"].net)
  /\ [][/\ pc \in DisPhase => params'["gen"] = params["gen"]
        /\ pc \in GenPhase => params'["dis"] = params["dis"]
        /\ pc = "L115" => params' = [params EXCEPT !["dis"] = @ + 1]
        /\ pc = "L133" => params' = [params EXCEPT !["gen"] = @ + 1]]_vars

C2_Witness ==
  pc = "L123" /\ params["dis"] = 2 /\ params["gen"] = 1

Count(seq, x) == Cardinality({k \in DOMAIN seq : seq[k] = x})

\* C3: in a training step the generator runs exactly once, and the batch
\* classified in the generator phase is the batch generated at line 95 of
\* that step from that step's latents, with the generator parameters as
\* they were before the step's discriminator update.
C3_SameFakeBatch ==
  /\ Count(trace, "gen") <= 1
  /\ Cardinality({k \in DOMAIN gen_calls : gen_calls[k].at # "L148"}) =
       IF pc \in {"L81", "L91", "L94", "L95"} THEN consumed - 1 ELSE consumed
  /\ pc \in AfterFakeGenPred =>
       /\ Count(trace, "gen") = 1
       /\ loc.fake_gen_pred.input = loc.fake_img
       /\ Detach(loc.fake_gen_pred.input) = loc.fake_dis_pred.input
       /\ loc.fake_img.input = loc.noise
       /\ loc.noise.id = rng - 1
       /\ gen_calls[Len(gen_calls)] =
            [at |-> "L95", input |-> loc.noise, epoch |-> epoch, i |-> i]
       /\ loc.fake_img.ver = loc.fake_dis_pred.ver
       /\ pc # "L142" => loc.fake_img.ver = params["gen"]
       /\ "gen" \in loc.fake_gen_pred.reaches

C3_Witness ==
  pc = "L133" /\ consumed = 2 /\ loc.fake_gen_pred.input = loc.fake_img

Pristine ==
  /\ opt = [o \in {"gen_optimizer", "dis_optimizer"} |-> NoOptimizer]
  /\ consumed = 0
  /\ params = [n \in Nets |-> 0]
  /\ grad = [n \in Nets |-> <<>>]
  /\ device = [n \in Nets |-> "cpu"]
  /\ out = <<>>
  /\ plots = <<>>
  /\ gen_calls = <<>>
  /\ rng = 0
  /\ loc = NoLocals
  /\ epoch = -1

\* C4: train on a batch source that is not a DataLoader fails with an
\* AssertionError before anything else happens: no optimizer, no batch
\* consumed, no parameter, gradient or device change, no output; the call
\* ends there.
C4_FailFast ==
  args.dl_type # "DataLoader" =>
    /\ pc \in {"L68", "raised"}
    /\ Pristine
    /\ pc = "raised" => (err = "AssertionError" /\ ~ENABLED Next)

C4_Witness ==
  /\ pc = "raised" /\ err = "AssertionError"
  /\ args.plot /\ NumEpochs = 2 /\ NumBatches = 2

\* The locations of train, each before every location control can reach
\* from it without taking a new batch or starting a new epoch
Locations ==
  <<"L68", "L71", "L72", "L73", "L74", "L76", "L77",
    "L81", "L91", "L94", "L95", "L98", "L101", "L102", "L105", "L106",
    "L109", "L110", "L112", "L113", "L114", "L115", "L123", "L128", "L131",
    "L132", "L133", "L142", "L80", "L146", "L148", "L149", "L79", "done",
    "raised">>

Position(l) == CHOOSE k \in DOMAIN Locations : Locations[k] = l

\* What is left of a run: epochs to start, batches to take in this epoch,
\* statements to run before the next batch is taken
Rank ==
  (NumEpochs - 1 - epoch) * (NumBatches + 2) * Len(Locations)
    + (NumBatches - loc.it) * Len(Locations)
    + (Len(Locations) - Position(pc))

\* C5: a train run over K batches per pass and E epochs ends, and ends
\* after exactly E x K steps: E x K batches taken, E x K discriminator
\* optimizer steps, E x K generator optimizer steps.  It ends because every
\* statement lowers Rank, a natural number, and every state but the last
\* has a next statement.
C5_StepCount ==
  /\ [](/\ Rank >= 0
        /\ consumed <= NumEpochs * NumBatches
        /\ pc = "done" =>
             /\ consumed = NumEpochs * NumBatches
             /\ opt["dis_optimizer"].steps = NumEpochs * NumBatches
             /\ opt["gen_optimizer"].steps = NumEpochs * NumBatches
             /\ params = [n \in Nets |-> NumEpochs * NumBatches]
        /\ (args.dl_type = "DataLoader" /\ pc # "done") => ENABLED Next
        /\ pc # "raised" \/ args.dl_type # "DataLoader")
  /\ [][Rank' < Rank]_vars

C5_Witness ==
  pc = "done" /\ NumEpochs = 2 /\ NumBatches = 2 /\ consumed = 4

\* The steps (epoch, index) whose line 142 has been passed
Logged(e, k) ==
  \/ e < epoch
  \/ e = epoch /\ k < loc.it - 1
  \/ e = epoch /\ k = loc.it - 1 /\ pc \in AfterStep \ {"L142"}

\* C6: a line is printed at a step exactly if the step's index within its
\* epoch is a multiple of print_loss_every, and passing line 142 changes
\* nothing but the output.
C6_Logging ==
  /\ [](/\ \A k \in DOMAIN out :
              /\ out[k].i % print_loss_every = 0
              /\ Logged(out[k].epoch, out[k].i)
              /\ out[k].num_epochs = NumEpochs
              /\ \A j \in DOMAIN out :
                   (out[j].epoch = out[k].epoch /\ out[j].i = out[k].i) => j = k
        /\ \A e \in 0..(NumEpochs - 1), k \in 0..(NumBatches - 1) :
              (Logged(e, k) /\ k % print_loss_every = 0) =>
                 \E j \in DOMAIN out : out[j].epoch = e /\ out[j].i = k)
  /\ [][pc = "L142" =>
          UNCHANGED <<params, grad, device, opt, epoch, i, loc, rng,
                      consumed, gen_calls, plots, trace>>]_vars

C6_Witness ==
  /\ print_loss_every = 2 /\ epoch = 1 /\ pc = "L80" /\ loc.it = 2
  /\ Len(out) = 2 /\ out[2].epoch = 1 /\ out[2].i = 0

\* Epochs whose end-of-epoch plot has been made
EpochsPlotted ==
  IF pc \in {"L79", "done"} THEN epoch + 1
  ELSE IF epoch < 0 THEN 0 ELSE epoch

\* The fixed latent batch of n samples: drawn once, first of all draws,
\* kept, and at the end of every epoch run through the generator once and
\* plotted; with plot disabled, never drawn, run or plotted.
FixedSeedContract(n) ==
  /\ args.plot /\ pc \notin {"L68", "L71", "L72", "L73", "L74", "L76", "L77", "raised"} =>
       /\ loc.fixed_seed = Randn(n, seed_size, args.device, 0)
       /\ loc.noise # Unset => loc.noise.id >= 1
       /\ Len(plots) = EpochsPlotted
       /\ Cardinality({k \in DOMAIN gen_calls : gen_calls[k].at = "L148"}) =
            IF pc = "L149" THEN Len(plots) + 1 ELSE Len(plots)
       /\ \A k \in DOMAIN gen_calls :
            gen_calls[k].at = "L148" => gen_calls[k].input = loc.fixed_seed
       /\ \A k \in DOMAIN plots :
            /\ plots[k].data.kind = "gen_out"
            /\ plots[k].data.input = loc.fixed_seed
            /\ plots[k].data.n = n
            /\ plots[k].data.ver = k * NumBatches
            /\ plots[k].data.reaches = {}
            /\ plots[k].outcome = "ok"
  /\ ~args.plot =>
       /\ plots = <<>>
       /\ loc.fixed_seed = Unset
       /\ \A k \in DOMAIN gen_calls : gen_calls[k].at # "L148"

\* C7 as stated: the fixed latent batch has 128 samples.
C7_FixedSeed128 == FixedSeedContract(128)

\* C7, amended: with plot enabled the fixed latent batch has 64 samples, is
\* drawn once before the first training step and never redrawn or changed,
\* and at the end of every epoch the generator runs once on it and the
\* result goes to plotter; with plot disabled plotter is never called and
\* no end-of-epoch generator run happens.
C7_FixedSeed64 == FixedSeedContract(64)

C7_Witness ==
  /\ pc = "done" /\ args.plot /\ NumEpochs = 2 /\ NumBatches = 2
  /\ Len(plots) = 2 /\ plots[2].data.input = loc.fixed_seed

\* C8: for all positive rows and cols generate draws rows x cols fresh
\* latent vectors of seed_size, runs the generator once on them, returns
\* (images, latents) with return_noise and the images alone without, and
\* calls plotter, with the same rows and cols, exactly if plot is set.
C8_GenerateContract ==
  pc \in {"returned", "raised"} =>
    /\ pc = "returned"
    /\ loc.noise = Randn(args.num_rows * args.num_cols, seed_size, args.device, 0)
    /\ rng = 1
    /\ Len(gen_calls) = 1 /\ gen_calls[1].input = loc.noise
    /\ loc.generated.input = loc.noise
    /\ loc.generated.n = args.num_rows * args.num_cols
    /\ result = IF args.return_noise
                THEN [kind |-> "pair", generated |-> loc.generated,
                      noise |-> To(loc.noise, "cpu")]
                ELSE loc.generated
    /\ Len(plots) = IF args.plot THEN 1 ELSE 0
    /\ \A k \in DOMAIN plots :
         /\ plots[k].rows = args.num_rows
         /\ plots[k].columns = args.num_cols
         /\ plots[k].data = loc.generated

\* What weight_init is claimed to make of layer l0
AsClaimed(l0, l1, exclusive) ==
  /\ Contains(Conv, l0.name) => l1 = [l0 EXCEPT !.weight = "normal(0,0.02)"]
  /\ (Contains(BatchNorm, l0.name) /\ (exclusive => ~Contains(Conv, l0.name))) =>
       l1 = [l0 EXCEPT !.weight = "normal(1,0.02)", !.bias = "constant(0)"]
  /\ (~Contains(Conv, l0.name) /\ ~Contains(BatchNorm, l0.name)) => l1 = l0

\* weight_init has run to its end on net
InitDone(net) == init_calls[net] = 1 /\ wi.model # net

WeightInitContract(exclusive) ==
  /\ \A n \in Nets :
       /\ init_calls[n] <= 1
       /\ init_calls[n] = 1 => layers[n] # <<>>
       /\ \A k \in DOMAIN layers[n] :
            /\ visits[n][k] <= 1
            /\ visits[n][k] = 0 => layers[n][k] = NewLayer(layers[n][k].name)
            /\ visits[n][k] = 1 =>
                 AsClaimed(NewLayer(layers[n][k].name), layers[n][k], exclusive)
            /\ InitDone(n) => visits[n][k] = 1
       /\ (pc = "L24" /\ wi.model = n) =>
            \A o \in DOMAIN opt : opt[o] = NoOptimizer
  /\ pc \in {"constructed", "L68", "L71", "L72", "L73", "raised"} =>
       \A n \in Nets : InitDone(n)
  /\ \A o \in DOMAIN opt : opt[o] # NoOptimizer => InitDone(opt[o].net)

LossId(name) == [loss |-> name, epoch |-> epoch, i |-> i]

\* C10: at each discriminator optimizer step the discriminator's gradient
\* holds the current step's real and fake discriminator losses and nothing
\* else; at each generator optimizer step the generator's gradient holds
\* the current step's generator loss and nothing else; the summed
\* discriminator loss is never backpropagated.
C10_NoAccumulation ==
  /\ pc = "L115" =>
       /\ Len(grad["dis"]) = 2
       /\ {grad["dis"][k] : k \in DOMAIN grad["dis"]} =
            {LossId("real_dis_loss"), LossId("fake_dis_loss")}
  /\ pc = "L133" => grad["gen"] = <<LossId("gen_loss")>>
  /\ \A n \in Nets : \A k \in DOMAIN grad[n] : grad[n][k].loss # "dis_loss"

C10_Witness ==
  /\ pc = "L115" /\ consumed = 2
  /\ grad["gen"] = <<[loss |-> "gen_loss", epoch |-> 0, i |-> 0]>>

====
